---- MODULE Spec2Model ----
(***************************************************************************)
(* Payment bookkeeping API: the payments and evidence collections, the     *)
(* startup CSV import, and the create / update / delete / upload /         *)
(* download / list handlers of app/api/payment.py and app/services.        *)
(*                                                                         *)
(* Money is counted in hundredths (cents), percentages in whole percent.   *)
(* Text fields are sequences of one-character strings, so that the         *)
(* case-insensitive regular-expression search of the list handler is       *)
(* computed and not assumed.  A payment id as a client sends it is an id   *)
(* string <<n, upper>>: n = 0 is a string that is no 24-digit hex number,  *)
(* n > 0 spells the ObjectId n, in lower or in upper case hex digits.      *)
(***************************************************************************)
EXTENDS Integers, Sequences, FiniteSets, TLC

\* ---------------------------------------------------------------- bounds
MaxPayments == 2
MaxEvidence == 2
MaxDay == 3
MaxRows == 3

\* ------------------------------------------------------------ value sets
None == 0 - 1
NoText == <<"?">>

Procs == {1, 2}
Oids == 1 .. MaxPayments
Days == 1 .. MaxDay
FirstDay == 2

Malformed == <<0, FALSE>>
IdStrings == {<<n, FALSE>> : n \in 0 .. MaxPayments}

\* bson.ObjectId(s): the id a well-formed string spells, whatever its case
WellFormed(s) == s[1] >= 1
ObjectId(s) == s[1]
\* str(ObjectId): always lower-case hex
Str(oid) == <<oid, FALSE>>

Sp == <<"S", "p">>
Pa == <<"P", "a">>
US == <<"U", "S">>
FR == <<"F", "R">>

Payload(city, country, due, disc, tax, amt) ==
    [payee_city |-> city, payee_country |-> country, payee_due_date |-> due,
     discount_percent |-> disc, tax_percent |-> tax, due_amount |-> amt]

\* the request bodies the clients send (PaymentCreateRequest / PaymentUpdateRequest)
Payloads ==
    { Payload(Sp, US, 1, None, 10, 10000),
      Payload(Pa, US, MaxDay, 10, 10, 333) }

\* the rows a CSV file may hold: a payload, or a row whose payee_city cell is empty
CsvRows == Payloads \cup { Payload(NoText, US, 1, None, 10, 10000) }

CityFilters == { <<>>, <<"s", "p">>, <<".">> }
CountryFilters == { <<>>, <<"u", "s">> }
Skips == {0, 1, 2}
Limits == {1, 2}

\* ----------------------------------------------------------------- state
VARIABLES
    serial,      \* TRUE: requests are served one at a time
    started,     \* "boot" | "up" | "failed": the startup event of main.py
    payments,    \* payments collection: ObjectId -> document
    nextId,      \* the next ObjectId the store generates
    evidence,    \* evidence collection, in insertion (natural) order
    today,       \* date.today()
    tmpFile,     \* contents of /tmp/temp_file
    pc,          \* per in-flight delete / download request: its position
    arg,         \* ... its payment_id path parameter
    own,         \* download: the file_data this call read and staged
    removed,     \* delete: <<evidence records, payments>> this call removed so far
    clob,        \* download: who overwrote /tmp/temp_file since this call staged it
    last         \* the response of the request the last step finished, if it finished one

vars == <<serial, started, payments, nextId, evidence, today, tmpFile,
          pc, arg, own, removed, clob, last>>

\* --------------------------------------------------------------- helpers
RECURSIVE SelectFirst(_, _)
\* index of the first evidence record keyed by the id string, 0 if none
SelectFirst(ev, id) ==
    IF ev = <<>> THEN 0
    ELSE IF Head(ev).payment_id = id THEN 1
    ELSE LET r == SelectFirst(Tail(ev), id) IN IF r = 0 THEN 0 ELSE r + 1

RECURSIVE SelectLast(_, _)
SelectLast(ev, id) ==
    IF ev = <<>> THEN 0
    ELSE IF ev[Len(ev)].payment_id = id THEN Len(ev)
    ELSE SelectLast(SubSeq(ev, 1, Len(ev) - 1), id)

\* a lookup that returns the newest record of the payment
FindNewestEvidence(ev, id) == SelectLast(ev, id)

\* evidence_collection.find_one({"payment_id": id}): the first match in natural order
FindOneEvidence(ev, id) == SelectFirst(ev, id)

RECURSIVE Without(_, _)
Without(ev, id) ==
    IF ev = <<>> THEN <<>>
    ELSE IF Head(ev).payment_id = id THEN Without(Tail(ev), id)
    ELSE <<Head(ev)>> \o Without(Tail(ev), id)

\* a delete_one in place of the delete_many: only the first match goes
DeleteFirstOnly(ev, id) ==
    LET i == SelectFirst(ev, id)
    IN  IF i = 0 THEN ev ELSE SubSeq(ev, 1, i - 1) \o SubSeq(ev, i + 1, Len(ev))

\* evidence_collection.delete_many({"payment_id": id})
DeleteMany(ev, id) == Without(ev, id)

\* an upload that replaces the evidence the payment already has
ReplaceEvidence(ev, rec) == Append(Without(ev, rec.payment_id), rec)

\* evidence_collection.insert_one(evidence.dict())
InsertEvidence(ev, rec) == Append(ev, rec)

\* Python's round(x, 2) of the amount n/d hundredths: to nearest, ties to even
RoundDiv(n, d) ==
    LET q == n \div d
        r == n % d
    IN  IF 2 * r < d THEN q
        ELSE IF 2 * r > d THEN q + 1
        ELSE IF q % 2 = 0 THEN q ELSE q + 1

\* `payment.get("discount_percent", 0) or 0`
OrZero(x) == IF x = None THEN 0 ELSE x

\* a recompute that compounds discount and tax, as the CSV import does
TotalDueCompound(p) ==
    RoundDiv(p.due_amount * (100 - OrZero(p.discount_percent))
                          * (100 + OrZero(p.tax_percent)), 10000)

\* get_payments: due - due*discount/100 + due*tax/100, rounded to 2 places
TotalDue(p) ==
    LET discount == OrZero(p.discount_percent)
        tax == OrZero(p.tax_percent)
        due_amount == p.due_amount
    IN  RoundDiv(100 * due_amount - due_amount * discount + due_amount * tax, 100)

\* normalize_csv_service: due * (1 - discount/100) * (1 + tax/100), rounded to 2 places
calculate_total_due(row) ==
    LET discount == IF row.discount_percent # 0 THEN row.discount_percent ELSE 0
        tax == IF row.tax_percent # 0 THEN row.tax_percent ELSE 0
    IN  RoundDiv(row.due_amount * (100 - discount) * (100 + tax), 10000)

\* a recompute that leaves a completed payment alone
RecomputeStatusOpen(p, day) ==
    IF p.payee_payment_status = "completed" THEN "completed"
    ELSE IF p.payee_due_date = day THEN "due_now"
    ELSE IF p.payee_due_date < day THEN "overdue"
    ELSE p.payee_payment_status

\* the two update_many calls of get_payments, applied to one document
RecomputeStatus(p, day) ==
    IF p.payee_due_date = day THEN "due_now"
    ELSE IF p.payee_due_date < day THEN "overdue"
    ELSE p.payee_payment_status

Lower(c) ==
    CASE c = "S" -> "s" [] c = "P" -> "p" [] c = "U" -> "u"
      [] c = "F" -> "f" [] c = "R" -> "r" [] OTHER -> c

\* {"$regex": pat, "$options": "i"}: an unanchored, case-insensitive search for a
\* pattern of literal characters and the wildcard "."
RegexSearch(pat, text) ==
    \E i \in 0 .. (Len(text) - Len(pat)) :
        \A j \in 1 .. Len(pat) :
            pat[j] = "." \/ Lower(pat[j]) = Lower(text[i + j])

\* the query dict: a falsy (None or empty) parameter adds no condition
Matches(p, cityF, countryF) ==
    /\ (cityF # <<>> => RegexSearch(cityF, p.payee_city))
    /\ (countryF # <<>> => RegexSearch(countryF, p.payee_country))

\* the orders .sort("payee_due_date", -1) may return the selected documents in
SortedDesc(S) ==
    { o \in [1 .. Cardinality(S) -> S] :
        /\ \A i, j \in DOMAIN o : i # j => o[i] # o[j]
        /\ \A i, j \in DOMAIN o :
               i < j => payments[o[i]].payee_due_date >= payments[o[j]].payee_due_date }

\* .skip(k).limit(n) of a cursor
Page(o, k, n) ==
    IF k >= Len(o) THEN <<>>
    ELSE SubSeq(o, k + 1, IF k + n > Len(o) THEN Len(o) ELSE k + n)

\* -------------------------------------------------------------- documents
NoId == <<None, FALSE>>

\* a payments document: the request body plus status and (maybe absent) total_due
Doc(b, status, total) ==
    [payee_payment_status |-> status,
     payee_city |-> b.payee_city, payee_country |-> b.payee_country,
     payee_due_date |-> b.payee_due_date,
     discount_percent |-> b.discount_percent, tax_percent |-> b.tax_percent,
     due_amount |-> b.due_amount, total_due |-> total]

\* models.evidence.Evidence
Evidence(id, name, data, type) ==
    [payment_id |-> id, file_name |-> name, file_data |-> data, file_type |-> type]

\* the shape of a finished request: what was asked and what was answered
Resp(op, code) ==
    [op |-> op, code |-> code, id |-> NoId,
     cityF |-> <<>>, countryF |-> <<>>, selected |-> {}, total |-> 0,
     page |-> <<>>, files |-> <<>>, rows |-> <<>>,
     content |-> 0, own |-> 0, clob |-> "none", removed |-> <<0, 0>>]

\* no request has finished in the step just taken
NoResp == Resp("none", 0)

Idle == [c \in Procs |-> "idle"]
Quiet == \A c \in Procs : pc[c] = "idle"
\* a request may begin: always when requests overlap, else when none is in flight
CanStart == started = "up" /\ (serial => Quiet)

\* ------------------------------------------------------- startup CSV import
\* normalize_csv: empty discount / tax cells become 0, total_due is computed
NormalizeRow(row) ==
    LET filled == [row EXCEPT !.discount_percent = OrZero(@), !.tax_percent = OrZero(@)]
    IN  Doc(filled, "pending", calculate_total_due(filled))

\* Payment(**payment_data): a required text field that is missing fails validation
ValidRow(row) == row.payee_city # NoText

RECURSIVE save_skipping_bad_rows(_, _, _)
\* an import that skips a row that fails validation and carries on
save_skipping_bad_rows(rows, coll, id) ==
    IF rows = <<>> THEN [coll |-> coll, next |-> id, raised |-> FALSE]
    ELSE IF ~ValidRow(Head(rows)) THEN save_skipping_bad_rows(Tail(rows), coll, id)
    ELSE save_skipping_bad_rows(Tail(rows), coll @@ (id :> NormalizeRow(Head(rows))), id + 1)

RECURSIVE save_to_normalize_csv_to_db(_, _, _)
\* insert row by row; the first row that fails validation raises
save_to_normalize_csv_to_db(rows, coll, id) ==
    IF rows = <<>> THEN [coll |-> coll, next |-> id, raised |-> FALSE]
    ELSE IF ~ValidRow(Head(rows)) THEN [coll |-> coll, next |-> id, raised |-> TRUE]
    ELSE save_to_normalize_csv_to_db(Tail(rows), coll @@ (id :> NormalizeRow(Head(rows))), id + 1)

\* the CSV files: up to MaxRows rows, no more than MaxPayments of them importable
CsvFiles ==
    { f \in UNION { [1 .. n -> CsvRows] : n \in 0 .. MaxRows } :
        Cardinality({k \in DOMAIN f : ValidRow(f[k])}) <= MaxPayments }

Init0 ==
    /\ started = "boot"
    /\ payments = <<>>
    /\ nextId = 1
    /\ evidence = <<>>
    /\ today = FirstDay
    /\ tmpFile = 0
    /\ pc = Idle
    /\ arg = [c \in Procs |-> NoId]
    /\ own = [c \in Procs |-> 0]
    /\ removed = [c \in Procs |-> <<0, 0>>]
    /\ clob = [c \in Procs |-> "none"]
    /\ last = NoResp

Init == serial = TRUE /\ Init0
InitConc == serial = FALSE /\ Init0

\* main.startup_event
Startup(files) ==
    /\ started = "boot"
    /\ \E rows \in files :
         LET r == save_to_normalize_csv_to_db(rows, payments, nextId)
         IN  /\ payments' = r.coll
             /\ nextId' = r.next
             /\ started' = IF r.raised THEN "failed" ELSE "up"
             /\ last' = [Resp("startup", IF r.raised THEN 500 ELSE 200) EXCEPT !.rows = rows]
    /\ UNCHANGED <<serial, evidence, today, tmpFile, pc, arg, own, removed, clob>>

\* the calendar day changes
Tick ==
    /\ today < MaxDay
    /\ today' = today + 1
    /\ last' = NoResp
    /\ UNCHANGED <<serial, started, payments, nextId, evidence, tmpFile,
                   pc, arg, own, removed, clob>>

\* ------------------------------------------------------- create and update
create_payment(bodies) ==
    /\ CanStart
    /\ nextId <= MaxPayments
    /\ \E b \in bodies :
         payments' = payments @@ (nextId :> Doc(b, "pending", None))
    /\ nextId' = nextId + 1
    /\ last' = [Resp("create", 200) EXCEPT !.id = Str(nextId)]
    /\ UNCHANGED <<serial, started, evidence, today, tmpFile, pc, arg, own, removed, clob>>

update_payment(ids, bodies) ==
    /\ CanStart
    /\ \E s \in ids, b \in bodies :
         IF ~WellFormed(s)
         THEN /\ last' = [Resp("update", 500) EXCEPT !.id = s]
              /\ UNCHANGED payments
         ELSE /\ last' = [Resp("update", 200) EXCEPT !.id = s]
              /\ payments' =
                   IF ObjectId(s) \in DOMAIN payments
                   THEN [payments EXCEPT ![ObjectId(s)] = Doc(b, "pending", @.total_due)]
                   ELSE payments
    /\ UNCHANGED <<serial, started, nextId, evidence, today, tmpFile,
                   pc, arg, own, removed, clob>>

\* ------------------------------------------------------------------ upload
\* payments_collection.update_one({"_id": oid}, {"$set": {"payee_payment_status": "completed"}})
SetCompleted(coll, oid) ==
    IF oid \in DOMAIN coll
    THEN [coll EXCEPT ![oid].payee_payment_status = "completed"]
    ELSE coll

\* an upload that parses the payment id before it stores anything
upload_parsing_first(ids, files) ==
    /\ CanStart
    /\ Len(evidence) < MaxEvidence
    /\ \E s \in ids, data \in files :
         IF ~WellFormed(s)
         THEN /\ last' = [Resp("upload", 500) EXCEPT !.id = s]
              /\ UNCHANGED <<payments, evidence>>
         ELSE /\ last' = [Resp("upload", 200) EXCEPT !.id = s]
              /\ evidence' = InsertEvidence(evidence, Evidence(s, "f", data, "t"))
              /\ payments' = SetCompleted(payments, ObjectId(s))
    /\ UNCHANGED <<serial, started, nextId, today, tmpFile, pc, arg, own, removed, clob>>

\* upload_evidence -> uploading_evidence
upload_evidence(ids, files) ==
    /\ CanStart
    /\ Len(evidence) < MaxEvidence
    /\ \E s \in ids, data \in files :
         /\ evidence' = InsertEvidence(evidence, Evidence(s, "f", data, "t"))
         /\ IF ~WellFormed(s)
            THEN /\ last' = [Resp("upload", 500) EXCEPT !.id = s]
                 /\ UNCHANGED payments
            ELSE /\ last' = [Resp("upload", 200) EXCEPT !.id = s]
                 /\ payments' = SetCompleted(payments, ObjectId(s))
    /\ UNCHANGED <<serial, started, nextId, today, tmpFile, pc, arg, own, removed, clob>>

\* ------------------------------------------------------------------ delete
\* payments_collection.delete_one({"_id": oid})
DeleteOne(coll, oid) == [i \in DOMAIN coll \ {oid} |-> coll[i]]

\* delete_payment, lines 101-111: parse the id, look the payment up
DeleteBegin(c, ids) ==
    /\ CanStart
    /\ pc[c] = "idle"
    /\ \E s \in ids :
         IF ~WellFormed(s)
         THEN /\ last' = [Resp("delete", 400) EXCEPT !.id = s]
              /\ UNCHANGED <<pc, arg>>
         ELSE IF ObjectId(s) \notin DOMAIN payments
         THEN /\ last' = [Resp("delete", 404) EXCEPT !.id = s]
              /\ UNCHANGED <<pc, arg>>
         ELSE /\ pc' = [pc EXCEPT ![c] = "d_find"]
              /\ arg' = [arg EXCEPT ![c] = s]
              /\ last' = NoResp
    /\ UNCHANGED <<serial, started, payments, nextId, evidence, today, tmpFile,
                   own, removed, clob>>

\* line 114: evidence_collection.find_one({"payment_id": payment_id})
DeleteFindEvidence(c) ==
    /\ pc[c] = "d_find"
    /\ pc' = [pc EXCEPT ![c] =
                IF FindOneEvidence(evidence, arg[c]) # 0 THEN "d_many" ELSE "d_one"]
    /\ last' = NoResp
    /\ UNCHANGED <<serial, started, payments, nextId, evidence, today, tmpFile,
                   arg, own, removed, clob>>

\* line 116: evidence_collection.delete_many({"payment_id": payment_id})
DeleteEvidence(c) ==
    /\ pc[c] = "d_many"
    /\ evidence' = DeleteMany(evidence, arg[c])
    /\ removed' = [removed EXCEPT ![c][1] = @ + Len(evidence) - Len(evidence')]
    /\ pc' = [pc EXCEPT ![c] = "d_one"]
    /\ last' = NoResp
    /\ UNCHANGED <<serial, started, payments, nextId, today, tmpFile,
                   arg, own, clob>>

\* lines 119-124: delete the payment; 404 when nothing was deleted
DeletePayment(c) ==
    /\ pc[c] = "d_one"
    /\ payments' = DeleteOne(payments, ObjectId(arg[c]))
    /\ LET deleted_count == IF ObjectId(arg[c]) \in DOMAIN payments THEN 1 ELSE 0
       IN  last' = [Resp("delete", IF deleted_count = 0 THEN 404 ELSE 200)
                      EXCEPT !.id = arg[c],
                             !.removed = <<removed[c][1], deleted_count>>]
    /\ pc' = [pc EXCEPT ![c] = "idle"]
    /\ arg' = [arg EXCEPT ![c] = NoId]
    /\ removed' = [removed EXCEPT ![c] = <<0, 0>>]
    /\ UNCHANGED <<serial, started, nextId, evidence, today, tmpFile, own, clob>>

\* ---------------------------------------------------------------- download
\* every other download that has staged and not yet been read is overwritten
Overwrite(c, by) ==
    [d \in Procs |-> IF d # c /\ pc[d] = "f_serve" THEN by ELSE clob[d]]

\* download_evidence -> get_evidence: find the record, write /tmp/temp_file
FetchStage(c, ids) ==
    /\ CanStart
    /\ pc[c] = "idle"
    /\ \E s \in ids :
         LET i == FindOneEvidence(evidence, s)
         IN  IF i = 0
             THEN /\ last' = [Resp("fetch", 404) EXCEPT !.id = s]
                  /\ UNCHANGED <<tmpFile, pc, arg, own, clob>>
             ELSE IF evidence[i].file_data = 0
             THEN /\ last' = [Resp("fetch", 400) EXCEPT !.id = s]
                  /\ UNCHANGED <<tmpFile, pc, arg, own, clob>>
             ELSE /\ tmpFile' = evidence[i].file_data
                  /\ own' = [own EXCEPT ![c] = evidence[i].file_data]
                  /\ clob' = [Overwrite(c, "fetch") EXCEPT ![c] = "none"]
                  /\ pc' = [pc EXCEPT ![c] = "f_serve"]
                  /\ arg' = [arg EXCEPT ![c] = s]
                  /\ last' = NoResp
    /\ UNCHANGED <<serial, started, payments, nextId, evidence, today, removed>>

\* FileResponse: the body is read from /tmp/temp_file when the response is sent
FetchServe(c) ==
    /\ pc[c] = "f_serve"
    /\ last' = [Resp("fetch", 200) EXCEPT !.id = arg[c], !.content = tmpFile,
                                          !.own = own[c], !.clob = clob[c]]
    /\ pc' = [pc EXCEPT ![c] = "idle"]
    /\ arg' = [arg EXCEPT ![c] = NoId]
    /\ own' = [own EXCEPT ![c] = 0]
    /\ clob' = [clob EXCEPT ![c] = "none"]
    /\ UNCHANGED <<serial, started, payments, nextId, evidence, today, tmpFile, removed>>

\* -------------------------------------------------------------------- list
\* get_payments, lines 200-222: status and total_due of every document
Recompute(coll, day) ==
    [i \in DOMAIN coll |->
        [coll[i] EXCEPT !.payee_payment_status = RecomputeStatus(coll[i], day),
                        !.total_due = TotalDue(coll[i])]]

RECURSIVE Attach(_, _, _, _)
\* lines 260-293: one get_evidence call per row of the page, in order.  get_evidence
\* raises 404 without a record and 400 without bytes, which ends the whole request;
\* otherwise it writes the bytes to /tmp/temp_file and the row reports file_found
Attach(page, tmp, files, wrote) ==
    IF page = <<>> THEN [code |-> 200, tmp |-> tmp, files |-> files, wrote |-> wrote]
    ELSE LET i == FindOneEvidence(evidence, Str(Head(page)))
         IN  IF i = 0
             THEN [code |-> 404, tmp |-> tmp, files |-> <<>>, wrote |-> wrote]
             ELSE IF evidence[i].file_data = 0
             THEN [code |-> 400, tmp |-> tmp, files |-> <<>>, wrote |-> wrote]
             ELSE Attach(Tail(page), evidence[i].file_data, Append(files, TRUE), TRUE)

get_payments(queries) ==
    /\ CanStart
    /\ \E q \in queries :
         LET cityF == q[1]
             countryF == q[2]
             skip == q[3]
             limit == q[4]
             coll == Recompute(payments, today)
             selected == {i \in DOMAIN coll : Matches(coll[i], cityF, countryF)}
             calculate_skip == (skip - 1) * limit
         IN  /\ payments' = coll
             /\ IF calculate_skip < 0
                THEN \* cursor.skip() rejects a negative offset
                     /\ last' = [Resp("list", 500) EXCEPT !.cityF = cityF,
                                   !.countryF = countryF, !.selected = selected]
                     /\ UNCHANGED <<tmpFile, clob>>
                ELSE \E o \in SortedDesc(selected) :
                       LET page == Page(o, calculate_skip, limit)
                           r == Attach(page, tmpFile, <<>>, FALSE)
                       IN  /\ tmpFile' = r.tmp
                           /\ clob' = IF r.wrote THEN Overwrite(0, "list") ELSE clob
                           /\ last' = [Resp("list", r.code) EXCEPT !.cityF = cityF,
                                         !.countryF = countryF, !.selected = selected,
                                         !.total = Cardinality(selected),
                                         !.page = page, !.files = r.files]
    /\ UNCHANGED <<serial, started, nextId, evidence, today, pc, arg, own, removed>>

\* ----------------------------------------------------------- specification
\* the bytes of an upload: bytes no upload now stored carried when it was made
Files == {Len(evidence) + 1}
WellFormedIds == {s \in IdStrings : WellFormed(s)}
Queries == CityFilters \X CountryFilters \X Skips \X Limits
\* the queries of a client that pages through the collection one row at a time
PageQueries == {<<>>} \X {<<>>} \X Skips \X {1}

\* The payments workload: import, create, update, evidence upload for existing
\* payments, and every list query, served one request at a time.
Next ==
    \/ Startup(CsvFiles)
    \/ Tick
    \/ create_payment(Payloads)
    \/ update_payment(IdStrings, Payloads)
    \/ upload_evidence(WellFormedIds, Files)
    \/ get_payments(Queries)

Spec == Init /\ [][Next]_vars

OneBody == {Payload(Sp, US, 1, None, 10, 10000)}

\* served one at a time, the requests need one request slot
OneProc == {CHOOSE c \in Procs : TRUE}

\* uploads that all carry the same bytes
OneFile == {1}

\* The evidence workload: payments of one body, uploads for any id, delete,
\* download and the paged list.
NextEvidence ==
    \/ Startup({<<>>})
    \/ create_payment(OneBody)
    \/ upload_evidence(IdStrings, OneFile)
    \/ get_payments(PageQueries)
    \/ \E c \in OneProc : DeleteBegin(c, IdStrings)
    \/ \E c \in OneProc : DeleteFindEvidence(c)
    \/ \E c \in OneProc : DeleteEvidence(c)
    \/ \E c \in OneProc : DeletePayment(c)
    \/ \E c \in OneProc : FetchStage(c, IdStrings)
    \/ \E c \in OneProc : FetchServe(c)

\* ... served one request at a time
SpecEvidence == Init /\ [][NextEvidence]_vars

\* The operations that write or rewrite total_due: import, create, update, list.
NextTotals ==
    \/ Startup(CsvFiles)
    \/ create_payment(Payloads)
    \/ update_payment(IdStrings, Payloads)
    \/ get_payments(Queries)

SpecTotals == Init /\ [][NextTotals]_vars

\* The operations that write payee_payment_status or move a due date across the
\* current day: create, update, upload, list and the change of day.
NextStatus ==
    \/ Startup({<<>>})
    \/ Tick
    \/ create_payment(Payloads)
    \/ update_payment(WellFormedIds, OneBody)
    \/ upload_evidence(WellFormedIds, OneFile)
    \/ get_payments(PageQueries)

SpecStatus == Init /\ [][NextStatus]_vars

\* The start-up import over every CSV file, followed by creations on the service
\* it leaves running.
NextImport ==
    \/ Startup(CsvFiles)
    \/ Tick
    \/ create_payment(Payloads)

SpecImport == Init /\ [][NextImport]_vars

\* the list query with every parameter at its default (skip = 1) and a page of 2
DefaultQuery == {<<<<>>, <<>>, 1, 2>>}

\* Deletes whose store operations interleave with each other and with uploads.
NextConcDelete ==
    \/ Startup({<<>>})
    \/ create_payment(OneBody)
    \/ upload_evidence(WellFormedIds, OneFile)
    \/ \E c \in Procs : DeleteBegin(c, IdStrings)
    \/ \E c \in Procs : DeleteFindEvidence(c)
    \/ \E c \in Procs : DeleteEvidence(c)
    \/ \E c \in Procs : DeletePayment(c)

SpecConcDelete == InitConc /\ [][NextConcDelete]_vars

\* Downloads that overlap with each other, with uploads and with list calls.
NextConcFetch ==
    \/ Startup({<<>>})
    \/ create_payment(OneBody)
    \/ upload_evidence(WellFormedIds, Files)
    \/ get_payments(DefaultQuery)
    \/ \E c \in Procs : FetchStage(c, WellFormedIds)
    \/ \E c \in Procs : FetchServe(c)

SpecConcFetch == InitConc /\ [][NextConcFetch]_vars

\* ------------------------------------------------------------------ claims
\* the total of section 4.2, in hundredths: due - due*discount/100 + due*tax/100,
\* a missing percentage counted as 0, rounded to 2 places
Section42Total(due, discount, tax) ==
    LET d == IF discount = None THEN 0 ELSE discount
        t == IF tax = None THEN 0 ELSE tax
    IN  RoundDiv(due * 100 - due * d + due * t, 100)

HasSection42Total(p) ==
    p.total_due = Section42Total(p.due_amount, p.discount_percent, p.tax_percent)

PageSet == {last.page[k] : k \in DOMAIN last.page}

\* C1: after any list call, whatever its filters and page and however it answered,
\* every document of the collection (on the page or not) carries the section 4.2
\* total of its own due_amount, discount_percent and tax_percent.
C1_TotalDueAfterList ==
    last.op = "list" => \A i \in DOMAIN payments : HasSection42Total(payments[i])

\* C1 witness: a list call has finished, and a document that is not on its page,
\* which the CSV import wrote with a different total (discount and tax both set),
\* now carries the section 4.2 total; so does one that create wrote without a total.
C1_Witness ==
    /\ last.op = "list"
    /\ \E i \in DOMAIN payments \ PageSet :
         /\ payments[i].discount_percent > 0 /\ payments[i].tax_percent > 0
         /\ payments[i].total_due # calculate_total_due(payments[i])
         /\ HasSection42Total(payments[i])
    /\ \E j \in DOMAIN payments : payments[j].discount_percent = None

\* C2: after any list call, every document due on the current day is "due_now" and
\* every document due before it is "overdue", whatever its status was before.
C2_StatusAfterList ==
    last.op = "list" =>
        \A i \in DOMAIN payments :
            /\ payments[i].payee_due_date = today
                   => payments[i].payee_payment_status = "due_now"
            /\ payments[i].payee_due_date < today
                   => payments[i].payee_payment_status = "overdue"

\* C2 witness: a list call has finished with one document due today and one due
\* earlier in the collection, the first outside the returned page.
C2_Witness ==
    /\ last.op = "list"
    /\ \E i, j \in DOMAIN payments :
         /\ payments[i].payee_due_date = today
         /\ payments[i].payee_payment_status = "due_now"
         /\ i \notin PageSet
         /\ payments[j].payee_due_date < today
         /\ payments[j].payee_payment_status = "overdue"

\* case-insensitive substring test, with no character of the filter special
IsSubstring(pat, text) ==
    \E i \in 0 .. (Len(text) - Len(pat)) :
        \A j \in 1 .. Len(pat) : Lower(pat[j]) = Lower(text[i + j])

\* C7 (as claimed): the list call selects exactly the documents in which every
\* supplied filter occurs as a case-insensitive substring of its field, and
\* totalCount is the number of selected documents.
C7_SelectsSubstringMatches ==
    last.op = "list" =>
        /\ last.selected =
             {i \in DOMAIN payments :
                 /\ (last.cityF # <<>> => IsSubstring(last.cityF, payments[i].payee_city))
                 /\ (last.countryF # <<>>
                        => IsSubstring(last.countryF, payments[i].payee_country))}
        /\ (last.code = 200 => last.total = Cardinality(last.selected))

\* C8 (as claimed): the total the CSV import stores for a row is the section 4.2
\* total of the row's due_amount, discount_percent and tax_percent.
C8_ImportTotalIsSection42 ==
    last.op = "startup" => \A i \in DOMAIN payments : HasSection42Total(payments[i])

\* index of the first row that fails validation, Len + 1 if none does
FirstBad(rows) ==
    IF \E k \in DOMAIN rows : ~ValidRow(rows[k])
    THEN CHOOSE k \in DOMAIN rows :
             ~ValidRow(rows[k]) /\ \A m \in 1 .. (k - 1) : ValidRow(rows[m])
    ELSE Len(rows) + 1

\* C9: the import of a file whose first bad row is row k leaves exactly rows
\* 1 .. k-1 in the collection, in file order, and raises; a file without a bad row
\* is imported whole.
C9_ImportFailFast ==
    last.op = "startup" =>
        LET k == FirstBad(last.rows)
        IN  /\ DOMAIN payments = 1 .. (k - 1)
            /\ \A m \in 1 .. (k - 1) :
                 /\ payments[m].payee_city = last.rows[m].payee_city
                 /\ payments[m].payee_due_date = last.rows[m].payee_due_date
                 /\ payments[m].due_amount = last.rows[m].due_amount
            /\ (k <= Len(last.rows) <=> last.code = 500)
            /\ (last.code = 500 <=> started = "failed")

\* C9 witness: a file of a good row, a bad row and a good row: the import has
\* raised and the first row alone is in the collection.
C9_Witness ==
    /\ last.op = "startup"
    /\ last.code = 500
    /\ Len(last.rows) = 3
    /\ ValidRow(last.rows[1]) /\ ~ValidRow(last.rows[2]) /\ ValidRow(last.rows[3])
    /\ DOMAIN payments = {1}

\* the evidence records of every payment but the one an id string names
OtherEvidence(ev, id) == SelectSeq(ev, LAMBDA e : e.payment_id # id)
EvidenceCount(ev, id) == Cardinality({k \in DOMAIN ev : ev[k].payment_id = id})

\* C3: no step of a Delete(P) touches another payment or the evidence of another
\* payment, and when the call answers 200 payment P is gone, it is this call that
\* removed it, and no evidence record keyed by P is left.
C3_Step ==
    \A c \in Procs :
        pc[c] \in {"d_find", "d_many", "d_one"} =>
            LET P == arg[c]
            IN  /\ \A i \in DOMAIN payments \ {ObjectId(P)} :
                     i \in DOMAIN payments' /\ payments'[i] = payments[i]
                /\ DOMAIN payments' \subseteq DOMAIN payments
                /\ OtherEvidence(evidence', P) = OtherEvidence(evidence, P)
                /\ (pc'[c] = "idle" /\ last'.code = 200 =>
                       /\ ObjectId(P) \notin DOMAIN payments'
                       /\ EvidenceCount(evidence', P) = 0
                       /\ last'.removed[2] = 1)

C4_FailedDeleteRemovesNothing ==
    last.op = "delete" /\ last.code \in {400, 404} => last.removed = <<0, 0>>

\* C5: an Upload with a well-formed id P appends one evidence record keyed by P
\* and keeps the records stored before; payment P, if there is one, becomes
\* "completed" and is otherwise unchanged; no other payment changes and none is
\* created.
C5_Step ==
    last'.op = "upload" /\ WellFormed(last'.id) =>
        /\ Len(evidence') = Len(evidence) + 1
        /\ SubSeq(evidence', 1, Len(evidence)) = evidence
        /\ evidence'[Len(evidence')].payment_id = last'.id
        /\ DOMAIN payments' = DOMAIN payments
        /\ \A i \in DOMAIN payments :
             IF i = ObjectId(last'.id)
             THEN payments'[i] = [payments[i] EXCEPT !.payee_payment_status = "completed"]
             ELSE payments'[i] = payments[i]

C5_UploadAppends == [][C5_Step]_vars

\* C5 witness: a second Upload for the same existing payment has finished: both
\* records are stored and the payment is completed.
C5_Witness ==
    /\ last.op = "upload"
    /\ last.code = 200
    /\ EvidenceCount(evidence, last.id) = 2
    /\ ObjectId(last.id) \in DOMAIN payments
    /\ payments[ObjectId(last.id)].payee_payment_status = "completed"

\* C11: an Upload whose payment id is malformed fails with an error and changes
\* no payment record, yet appends one evidence record keyed by the malformed id
\* and keeps the records stored before: the failed call changes the store.
C11_Step ==
    last'.op = "upload" /\ ~WellFormed(last'.id) =>
        /\ last'.code >= 400
        /\ payments' = payments
        /\ Len(evidence') = Len(evidence) + 1
        /\ SubSeq(evidence', 1, Len(evidence)) = evidence
        /\ evidence'[Len(evidence')].payment_id = last'.id
        /\ evidence' # evidence

C11_FailedUploadStores == [][C11_Step]_vars

\* C11 witness: an Upload with a malformed id has failed while a payment and an
\* earlier evidence record exist; the record keyed by the malformed id is stored
\* last and the payment is still not completed.
C11_Witness ==
    /\ last.op = "upload"
    /\ last.code = 500
    /\ ~WellFormed(last.id)
    /\ Len(evidence) = 2
    /\ evidence[2].payment_id = last.id
    /\ WellFormed(evidence[1].payment_id)
    /\ \E i \in DOMAIN payments : payments[i].payee_payment_status # "completed"

\* C6 (as claimed): a list call with a valid page answers 200 and reports, for
\* every row of the page, file_found = whether the payment has an evidence record.
C6_ListReportsEvidence ==
    last.op = "list" /\ last.code # 500 =>
        /\ last.code = 200
        /\ Len(last.files) = Len(last.page)
        /\ \A k \in DOMAIN last.page :
             last.files[k] = (EvidenceCount(evidence, Str(last.page[k])) > 0)

\* the bytes of the first evidence record stored for an id string
FirstBytes(ev, id) ==
    LET idx == {k \in DOMAIN ev : ev[k].payment_id = id}
    IN  ev[CHOOSE k \in idx : \A m \in idx : k <= m].file_data

\* C10: a Fetch stages the bytes of the first evidence record stored for its own
\* payment at the shared path, and the response it sends afterwards carries those
\* bytes unless something staged other bytes at the path in between.
C10_Step ==
    \A c \in Procs :
        /\ pc[c] = "idle" /\ pc'[c] = "f_serve" =>
               /\ own'[c] = FirstBytes(evidence, arg'[c])
               /\ tmpFile' = own'[c]
        /\ pc[c] = "f_serve" /\ pc'[c] = "idle" /\ clob[c] = "none" =>
               /\ last'.op = "fetch" /\ last'.code = 200
               /\ last'.content = own[c]

C10_FetchServesStaged == [][C10_Step]_vars

\* C10 witness: a Fetch for P has answered with the bytes of another payment's
\* evidence, staged by a concurrent Fetch after P's were.
C10_Witness ==
    /\ last.op = "fetch"
    /\ last.code = 200
    /\ last.clob = "fetch"
    /\ last.content # last.own
    /\ \E k \in DOMAIN evidence :
         evidence[k].payment_id # last.id /\ evidence[k].file_data = last.content

====
